---- MODULE Spec2Model ----
(***************************************************************************)
(* The quota segment of the statusline (src/core/segments/quota.rs):       *)
(* credential resolution, usage-endpoint detection, the balance request    *)
(* and the reduction to a SegmentData {primary, secondary, metadata}.      *)
(*                                                                         *)
(* Conventions.                                                            *)
(*  - Option<T>: None is the empty tuple <<>>, Some(x) is <<x>>.           *)
(*  - Credentials and file contents are sequences of one-character         *)
(*    strings, so that trim() is computed; display strings are strings.    *)
(*  - An f64 amount is an integer number of eighths of a dollar (every     *)
(*    such value is exactly representable in binary, so {:.2} and          *)
(*    to_string() are computed exactly).                                   *)
(*  - The YESCODE_DEBUG diagnostics (eprintln!) write to stderr only and   *)
(*    are not part of the state.                                           *)
(***************************************************************************)
EXTENDS Integers, Sequences, FiniteSets, TLC

VARIABLES
    envv,          \* process environment: variable name -> [set, unicode, val]
    home,          \* dirs::home_dir() is Some
    settingsFile,  \* ~/.claude/settings.json: <<>> unreadable, <<[valid, root]>>
    keyFile,       \* ~/.claude/api_key: <<>> unreadable, <<contents>>
    endpoints,     \* SmartEndpointDetector.endpoints
    pc,            \* position of collect: "start", "detect", "balance", "done"
    api_key,       \* Option<String> bound at line 295
    idx,           \* position of the for loop of detect_endpoint
    detected,      \* Option<(String, YesCodeApiResponse)> of detect_endpoint
    attempts,      \* the HTTP requests issued so far, in order, with their outcome
    result         \* Option<SegmentData> returned by collect

vars == <<envv, home, settingsFile, keyFile, endpoints, pc, api_key, idx,
          detected, attempts, result>>

inputs == <<envv, home, settingsFile, keyFile, endpoints>>

----------------------------------------------------------------------------
(* Bounds *)

\* longest daily_usage list a usage response carries
MaxRecords == 2

\* longest usage endpoint list of a detector (SpecDetect only)
MaxEndpoints == 3

----------------------------------------------------------------------------
(* Option *)

None == <<>>
Some(x) == <<x>>
IsSome(o) == o # <<>>

----------------------------------------------------------------------------
(* Strings as character sequences; str::trim *)

IsWhite(c) == c \in {" ", "\n", "\t"}

RECURSIVE TrimStart(_)
TrimStart(s) ==
    IF s = <<>> THEN <<>>
    ELSE IF IsWhite(Head(s)) THEN TrimStart(Tail(s)) ELSE s

RECURSIVE TrimEnd(_)
TrimEnd(s) ==
    IF s = <<>> THEN <<>>
    ELSE IF IsWhite(s[Len(s)]) THEN TrimEnd(SubSeq(s, 1, Len(s) - 1)) ELSE s

Trim(s) == TrimEnd(TrimStart(s))

----------------------------------------------------------------------------
(* The process environment *)

EnvNames == {"YESCODE_API_KEY", "ANTHROPIC_API_KEY", "ANTHROPIC_AUTH_TOKEN"}

EnvAbsent == [set |-> FALSE, unicode |-> FALSE, val |-> <<>>]
EnvNotUnicode == [set |-> TRUE, unicode |-> FALSE, val |-> <<>>]
EnvStr(s) == [set |-> TRUE, unicode |-> TRUE, val |-> s]

\* the values each variable may hold: unset, set to bytes that are not
\* Unicode, set to the empty string, set to a key naming the variable
EnvValues(n) ==
    {EnvAbsent, EnvNotUnicode, EnvStr(<<>>)} \cup
    {EnvStr(CASE n = "YESCODE_API_KEY" -> <<"y">>
              [] n = "ANTHROPIC_API_KEY" -> <<"a">>
              [] n = "ANTHROPIC_AUTH_TOKEN" -> <<"t">>)}

\* env::var(name): Ok(value) only when the variable is set and is Unicode
env_var(n) ==
    IF envv[n].set /\ envv[n].unicode THEN Some(envv[n].val) ELSE None

----------------------------------------------------------------------------
(* serde_json::Value, as far as load_from_settings looks into it *)

JStr(s) == [t |-> "str", s |-> s, o |-> <<>>]
JNum == [t |-> "num", s |-> <<>>, o |-> <<>>]
JNull == [t |-> "null", s |-> <<>>, o |-> <<>>]
JObj(f) == [t |-> "obj", s |-> <<>>, o |-> f]
JArr == [t |-> "arr", s |-> <<>>, o |-> <<>>]

\* Value::get(key): Some only on an object that has the key
Get(v, k) == IF v.t = "obj" /\ k \in DOMAIN v.o THEN Some(v.o[k]) ELSE None

\* Value::as_str(): Some only on a JSON string
AsStr(v) == IF v.t = "str" THEN Some(v.s) ELSE None

\* the values of one env field of the settings document
TokenFields == {None, Some(JNum), Some(JStr(<<>>)), Some(JStr(<<"s", "t">>))}
KeyFields == {None, Some(JNull), Some(JStr(<<>>)), Some(JStr(<<"s", "k">>))}

EnvObject(tok, key) ==
    JObj((IF tok = None THEN <<>> ELSE ("ANTHROPIC_AUTH_TOKEN" :> tok[1])) @@
         (IF key = None THEN <<>> ELSE ("ANTHROPIC_API_KEY" :> key[1])))

SettingsRoots ==
    {JArr, JObj(<<>>), JObj("env" :> JStr(<<"x">>))} \cup
    {JObj("env" :> EnvObject(tok, key)) : tok \in TokenFields, key \in KeyFields}

\* the settings file: unreadable, not JSON, or a JSON document
SettingsFiles ==
    {None, Some([valid |-> FALSE, root |-> JNull])} \cup
    {Some([valid |-> TRUE, root |-> r]) : r \in SettingsRoots}

\* the key file: unreadable, or its contents
KeyFiles ==
    {None, Some(<<>>), Some(<<" ", "\n">>), Some(<<"f">>),
     Some(<<" ", "f", "\n">>)}

----------------------------------------------------------------------------
(* QuotaSegment: credential resolution *)

\* the two string fields of the settings document, in the order the code
\* consults them
SettingsFieldOrder == <<"ANTHROPIC_AUTH_TOKEN", "ANTHROPIC_API_KEY">>

\* env.get(name).as_str(), None when the field is absent or not a string
SettingsField(env, name) ==
    LET f == Get(env, name) IN IF IsSome(f) THEN AsStr(f[1]) ELSE None

load_from_settings ==
    IF ~home THEN None
    ELSE IF settingsFile = None THEN None
    ELSE IF ~settingsFile[1].valid THEN None
    ELSE LET env == Get(settingsFile[1].root, "env") IN
         IF env = None THEN None
         ELSE LET first == SettingsField(env[1], SettingsFieldOrder[1])
                  second == SettingsField(env[1], SettingsFieldOrder[2])
              IN  IF IsSome(first) THEN first
                  ELSE IF IsSome(second) THEN second
                  ELSE None

\* step 3 of load_api_key: the trimmed contents of the key file
load_key_file ==
    IF home /\ keyFile # None THEN Some(Trim(keyFile[1])) ELSE None

\* mutant: ANTHROPIC_AUTH_TOKEN consulted before ANTHROPIC_API_KEY
load_api_key_token_first ==
    IF IsSome(env_var("YESCODE_API_KEY")) THEN env_var("YESCODE_API_KEY")
    ELSE IF IsSome(env_var("ANTHROPIC_AUTH_TOKEN")) THEN env_var("ANTHROPIC_AUTH_TOKEN")
    ELSE IF IsSome(env_var("ANTHROPIC_API_KEY")) THEN env_var("ANTHROPIC_API_KEY")
    ELSE IF IsSome(load_from_settings) THEN load_from_settings
    ELSE load_key_file

\* mutant: an unusable settings file ends the resolution
load_api_key_settings_required ==
    IF IsSome(env_var("YESCODE_API_KEY")) THEN env_var("YESCODE_API_KEY")
    ELSE IF IsSome(env_var("ANTHROPIC_API_KEY")) THEN env_var("ANTHROPIC_API_KEY")
    ELSE IF IsSome(env_var("ANTHROPIC_AUTH_TOKEN")) THEN env_var("ANTHROPIC_AUTH_TOKEN")
    ELSE IF IsSome(load_from_settings) THEN load_from_settings
    ELSE IF settingsFile = None \/ ~settingsFile[1].valid THEN None
    ELSE load_key_file

load_api_key ==
    IF IsSome(env_var("YESCODE_API_KEY")) THEN env_var("YESCODE_API_KEY")
    ELSE IF IsSome(env_var("ANTHROPIC_API_KEY")) THEN env_var("ANTHROPIC_API_KEY")
    ELSE IF IsSome(env_var("ANTHROPIC_AUTH_TOKEN")) THEN env_var("ANTHROPIC_AUTH_TOKEN")
    ELSE IF IsSome(load_from_settings) THEN load_from_settings
    ELSE load_key_file

----------------------------------------------------------------------------
(* SmartEndpointDetector: endpoints and single requests *)

UsageUrl == "https://co.yes.vg/api/v1/user/usage/daily"
BalanceUrl == "https://co.yes.vg/api/v1/user/balance"

\* SmartEndpointDetector::new(): the configured usage endpoint list
new == <<[url |-> UsageUrl, name |-> "main"]>>

get_balance_endpoint == [url |-> BalanceUrl, name |-> "balance"]

\* amounts the remote service reports, in eighths of a dollar
Costs == {3, 12}
Balances == {0, 80, 403}

RECURSIVE SeqsUpTo(_, _)
SeqsUpTo(S, n) ==
    IF n = 0 THEN {<<>>}
    ELSE LET shorter == SeqsUpTo(S, n - 1) IN
         shorter \cup {Append(q, x) : q \in {r \in shorter : Len(r) = n - 1}, x \in S}

\* bodies that decode as YesCodeApiResponse
UsageResponses ==
    {[daily_usage |-> l] : l \in SeqsUpTo({[total_cost |-> c] : c \in Costs}, MaxRecords)}

\* bodies that decode as BalanceApiResponse (only total_balance is read)
BalanceResponses == {[total_balance |-> b] : b \in Balances}

\* what ureq's call() came back with: Err(e), or Ok(response) with a status
\* and a body; body is None when into_json fails on it
HttpErr(e) == [res |-> "Err", err |-> e, status |-> 0, body |-> None]
HttpOk(st, b) == [res |-> "Ok", err |-> "", status |-> st, body |-> b]

HttpResults(decoded) ==
    {HttpErr("network"), HttpErr("timeout")} \cup
    {HttpOk(200, b) : b \in {None} \cup {Some(d) : d \in decoded}} \cup
    {HttpOk(204, Some(CHOOSE d \in decoded : TRUE))}

\* lines 110-140 and 175-205: the decoded body only on Ok with status 200
MatchResult(raw) ==
    IF raw.res = "Ok"
    THEN IF raw.status = 200 THEN raw.body ELSE None
    ELSE None

\* mutant: the status of the response is not looked at
try_endpoint_any_status(raw) == IF raw.res = "Ok" THEN raw.body ELSE None

try_endpoint(raw) == MatchResult(raw)

try_balance_endpoint(raw) == MatchResult(raw)

\* mutant: the list is walked from its end
EndpointAt_reversed(i) == endpoints[Len(endpoints) + 1 - i]

\* the endpoint the i-th iteration of the loop of detect_endpoint tries
EndpointAt(i) == endpoints[i]

\* the for loop of detect_endpoint goes on after a failure of endpoint i
\* iff another endpoint is left
HasNext(i) == i < Len(endpoints)

----------------------------------------------------------------------------
(* QuotaSegment: formatting *)

\* an amount of n eighths in cents, rounded half to even as {:.2} does
Cents(n) ==
    LET t == n * 25
        q == t \div 2
    IN  IF t % 2 = 0 THEN q ELSE IF q % 2 = 0 THEN q ELSE q + 1

\* format!("{:.2}", x)
Fixed2(n) ==
    LET c == Cents(n) IN
    ToString(c \div 100) \o "." \o
    (IF c % 100 < 10 THEN "0" ELSE "") \o ToString(c % 100)

\* f64::to_string(): the shortest decimal that reads back as the value
F64ToString(n) ==
    ToString(n \div 8) \o
    (CASE n % 8 = 0 -> ""
       [] n % 8 = 1 -> ".125"
       [] n % 8 = 2 -> ".25"
       [] n % 8 = 3 -> ".375"
       [] n % 8 = 4 -> ".5"
       [] n % 8 = 5 -> ".625"
       [] n % 8 = 6 -> ".75"
       [] n % 8 = 7 -> ".875")

format_daily_spent(spent) == "Used:$" \o Fixed2(spent)

format_balance(balance) == "Left:$" \o Fixed2(balance)

\* mutant: an empty list counts as a cost of zero
get_today_cost_or_zero(response) ==
    IF response.daily_usage = <<>> THEN Some(0)
    ELSE Some(response.daily_usage[1].total_cost)

get_today_cost(response) ==
    IF response.daily_usage = <<>> THEN None
    ELSE Some(response.daily_usage[1].total_cost)

----------------------------------------------------------------------------
(* QuotaSegment::collect *)

\* mutant: a failed balance request shows as offline
Secondary_offline(bal) ==
    IF IsSome(bal) THEN format_balance(bal[1].total_balance)
    ELSE "Offline"

\* lines 305-310 and 323-328
Secondary(bal) ==
    IF IsSome(bal) THEN format_balance(bal[1].total_balance)
    ELSE "Balance Unknown"

\* lines 339-349
OfflineData ==
    Some([primary |-> "Offline", secondary |-> "Offline",
          metadata |-> ("status" :> "offline")])

\* mutant: without a usage record the balance is not shown
FetchedData_no_balance_on_empty(det, bal) ==
    LET today_cost == get_today_cost(det.response) IN
    IF IsSome(today_cost)
    THEN Some([primary |-> format_daily_spent(today_cost[1]),
               secondary |-> Secondary(bal),
               metadata |-> ("raw_spent" :> F64ToString(today_cost[1]) @@
                             "endpoint_used" :> det.url)])
    ELSE Some([primary |-> "Used:$0.00",
               secondary |-> "Balance Unknown",
               metadata |-> ("status" :> "no_data_today")])

\* lines 301-338: the result once usage detection succeeded and the balance
\* request came back with bal
FetchedData(det, bal) ==
    LET today_cost == get_today_cost(det.response) IN
    IF IsSome(today_cost)
    THEN Some([primary |-> format_daily_spent(today_cost[1]),
               secondary |-> Secondary(bal),
               metadata |-> ("raw_spent" :> F64ToString(today_cost[1]) @@
                             "endpoint_used" :> det.url)])
    ELSE Some([primary |-> "Used:$0.00",
               secondary |-> Secondary(bal),
               metadata |-> ("status" :> "no_data_today")])

\* mutant: the offline branch returns nothing
collect_result_offline_none(det, bal) ==
    IF IsSome(det) THEN FetchedData(det[1], bal) ELSE None

\* lines 298-349: the value collect returns
collect_result(det, bal) ==
    IF IsSome(det) THEN FetchedData(det[1], bal) ELSE OfflineData

\* mutant: the balance request is made whatever the detection gave
AfterDetect_always_balance(det) == "balance"

\* line 298: the branch taken on the result of detect_endpoint_static; a
\* successful detection goes on to the balance request, a failed one returns
AfterDetect(det) == IF IsSome(det) THEN "balance" ELSE "done"

Attempt(kind, url, raw) ==
    [kind |-> kind, url |-> url, key |-> api_key[1], raw |-> raw]

\* collect, up to the first remote request: resolve the credential, return
\* None without it
CollectStart ==
    /\ pc = "start"
    /\ api_key' = load_api_key
    /\ IF api_key' = None
       THEN pc' = "done"
       ELSE pc' = "detect"
    /\ UNCHANGED <<inputs, idx, detected, attempts, result>>

\* one iteration of the loop of detect_endpoint: one request to the idx-th
\* usage endpoint; on the last failure collect returns the offline result
TryEndpoint ==
    /\ pc = "detect"
    /\ \E raw \in HttpResults(UsageResponses) :
        LET endpoint == EndpointAt(idx)
            response == try_endpoint(raw)
            det == IF IsSome(response)
                   THEN Some([url |-> endpoint.url, response |-> response[1]])
                   ELSE None
        IN  /\ attempts' = Append(attempts, Attempt("usage", endpoint.url, raw))
            /\ IF IsSome(det) \/ ~HasNext(idx)
               THEN /\ detected' = det
                    /\ pc' = AfterDetect(det)
                    /\ result' = IF pc' = "done"
                                 THEN collect_result(det, None) ELSE result
                    /\ idx' = idx
               ELSE /\ idx' = idx + 1
                    /\ UNCHANGED <<detected, pc, result>>
    /\ UNCHANGED <<inputs, api_key>>

\* the balance request and the return of collect
TryBalance ==
    /\ pc = "balance"
    /\ \E raw \in HttpResults(BalanceResponses) :
        /\ attempts' = Append(attempts,
                              Attempt("balance", get_balance_endpoint.url, raw))
        /\ result' = collect_result(detected, try_balance_endpoint(raw))
    /\ pc' = "done"
    /\ UNCHANGED <<inputs, api_key, idx, detected>>

InitInputs ==
    /\ envv \in {f \in [EnvNames -> UNION {EnvValues(n) : n \in EnvNames}] :
                    \A n \in EnvNames : f[n] \in EnvValues(n)}
    /\ home \in BOOLEAN
    /\ settingsFile \in SettingsFiles
    /\ keyFile \in KeyFiles

InitCollect ==
    /\ pc = "start"
    /\ api_key = None
    /\ idx = 1
    /\ detected = None
    /\ attempts = <<>>
    /\ result = None

Init == InitInputs /\ endpoints = new /\ InitCollect

Next == CollectStart \/ TryEndpoint \/ TryBalance

Spec == Init /\ [][Next]_vars

\* the detector with any endpoint list of one to MaxEndpoints entries
EndpointLists ==
    {[i \in 1..n |-> IF i = 1 THEN new[1]
                     ELSE [url |-> UsageUrl \o "#" \o ToString(i),
                           name |-> "alt" \o ToString(i)]] : n \in 1..MaxEndpoints}

\* the credential sources of SpecDetect: one environment variable and the key
\* file, enough for collect to run with and without a credential
DetectInputs ==
    /\ envv \in {[n \in EnvNames |-> IF n = "YESCODE_API_KEY" THEN v ELSE EnvAbsent] :
                    v \in EnvValues("YESCODE_API_KEY")}
    /\ home \in BOOLEAN
    /\ settingsFile = None
    /\ keyFile \in {None, Some(<<"f">>)}

InitDetect == DetectInputs /\ endpoints \in EndpointLists /\ InitCollect

SpecDetect == InitDetect /\ [][Next]_vars

----------------------------------------------------------------------------
(* Vocabulary of the properties, stated on the inputs and on the requests   *)
(* issued, not on the operators above                                       *)

\* an environment variable counts as set when env::var can read it
EnvSet(n) == envv[n].set /\ envv[n].unicode

NoEnv == \A n \in EnvNames : ~EnvSet(n)

\* the settings document holds env.<name> as a JSON string
SettingsString(name) ==
    /\ home
    /\ settingsFile # <<>>
    /\ settingsFile[1].valid
    /\ settingsFile[1].root.t = "obj"
    /\ "env" \in DOMAIN settingsFile[1].root.o
    /\ settingsFile[1].root.o["env"].t = "obj"
    /\ name \in DOMAIN settingsFile[1].root.o["env"].o
    /\ settingsFile[1].root.o["env"].o[name].t = "str"

SettingsValue(name) == settingsFile[1].root.o["env"].o[name].s

KeyFilePresent == home /\ keyFile # <<>>

\* the key file contents of KeyFiles with the surrounding whitespace removed
TrimmedContents(c) ==
    CASE c = <<>> -> <<>>
      [] c = <<" ", "\n">> -> <<>>
      [] c = <<"f">> -> <<"f">>
      [] c = <<" ", "f", "\n">> -> <<"f">>

\* what the key file alone gives
KeyFileAlone ==
    IF KeyFilePresent THEN <<TrimmedContents(keyFile[1])>> ELSE <<>>

\* a request failed: transport error or timeout, a status other than 200,
\* or a body that does not decode
Failed(raw) == raw.res = "Err" \/ raw.status # 200 \/ raw.body = <<>>

IsUsageAttempt(a) == a.kind = "usage"
IsBalanceAttempt(a) == a.kind = "balance"

UsageAttempts == SelectSeq(attempts, IsUsageAttempt)
BalanceAttempts == SelectSeq(attempts, IsBalanceAttempt)

UsageSucceeded == \E i \in DOMAIN UsageAttempts : ~Failed(UsageAttempts[i].raw)

\* the request of the usage endpoint that answered
UsageAnswer ==
    UsageAttempts[CHOOSE i \in DOMAIN UsageAttempts : ~Failed(UsageAttempts[i].raw)]

UsageRecords == UsageAnswer.raw.body[1].daily_usage

Returned == pc = "done"
ReturnedWithKey == pc = "done" /\ api_key # <<>>

\* the amounts of Costs and Balances to two decimals
TwoDecimals(n) ==
    CASE n = 0 -> "0.00"
      [] n = 3 -> "0.38"
      [] n = 12 -> "1.50"
      [] n = 80 -> "10.00"
      [] n = 403 -> "50.38"

\* the amounts of Costs as to_string() prints them
Shortest(n) ==
    CASE n = 3 -> "0.375"
      [] n = 12 -> "1.5"

----------------------------------------------------------------------------
(* C1 *)

\* C1: the credential bound by collect follows the fixed priority order:
\* YESCODE_API_KEY whenever it is set, else ANTHROPIC_API_KEY, else
\* ANTHROPIC_AUTH_TOKEN, else the settings string env.ANTHROPIC_AUTH_TOKEN,
\* else the settings string env.ANTHROPIC_API_KEY, else the trimmed key file,
\* else nothing; no lower source is returned while a higher one is present.
\* (A source is present when it can be read as a string: an environment
\* variable env::var returns, a settings field that is a JSON string.)
C1_PriorityOrder ==
    pc # "start" =>
        /\ EnvSet("YESCODE_API_KEY") => api_key = <<envv["YESCODE_API_KEY"].val>>
        /\ ~EnvSet("YESCODE_API_KEY") /\ EnvSet("ANTHROPIC_API_KEY")
              => api_key = <<envv["ANTHROPIC_API_KEY"].val>>
        /\ ~EnvSet("YESCODE_API_KEY") /\ ~EnvSet("ANTHROPIC_API_KEY")
              /\ EnvSet("ANTHROPIC_AUTH_TOKEN")
              => api_key = <<envv["ANTHROPIC_AUTH_TOKEN"].val>>
        /\ NoEnv /\ SettingsString("ANTHROPIC_AUTH_TOKEN")
              => api_key = <<SettingsValue("ANTHROPIC_AUTH_TOKEN")>>
        /\ NoEnv /\ ~SettingsString("ANTHROPIC_AUTH_TOKEN")
              /\ SettingsString("ANTHROPIC_API_KEY")
              => api_key = <<SettingsValue("ANTHROPIC_API_KEY")>>
        /\ NoEnv /\ ~SettingsString("ANTHROPIC_AUTH_TOKEN")
              /\ ~SettingsString("ANTHROPIC_API_KEY") /\ KeyFilePresent
              => api_key = <<TrimmedContents(keyFile[1])>>
        /\ NoEnv /\ ~SettingsString("ANTHROPIC_AUTH_TOKEN")
              /\ ~SettingsString("ANTHROPIC_API_KEY") /\ ~KeyFilePresent
              => api_key = <<>>

\* every source populated at once, and the resolver has answered
C1_Witness ==
    /\ pc # "start"
    /\ \A n \in EnvNames : EnvSet(n) /\ envv[n].val # <<>>
    /\ SettingsString("ANTHROPIC_AUTH_TOKEN") /\ SettingsString("ANTHROPIC_API_KEY")
    /\ KeyFilePresent
    /\ api_key = << <<"y">> >>

----------------------------------------------------------------------------
(* C2 *)

\* C2 as claimed: in every collect call with a credential both the usage
\* query and the balance query are issued, usage first, also when every
\* usage endpoint failed.
C2_BalanceAlwaysAttempted ==
    ReturnedWithKey =>
        /\ UsageAttempts # <<>>
        /\ BalanceAttempts # <<>>
        /\ \A i, j \in DOMAIN attempts :
              IsUsageAttempt(attempts[i]) /\ IsBalanceAttempt(attempts[j]) => i < j

\* C2 amended: in every collect call with a credential the usage query is
\* issued first; the balance query is issued, once and after every usage
\* request, exactly when a usage endpoint succeeded; after a failure of
\* every usage endpoint no balance request is made.
C2_BalanceOnlyAfterUsageSuccess ==
    ReturnedWithKey =>
        /\ UsageAttempts # <<>>
        /\ IsUsageAttempt(attempts[1])
        /\ \A i, j \in DOMAIN attempts :
              IsUsageAttempt(attempts[i]) /\ IsBalanceAttempt(attempts[j]) => i < j
        /\ Len(BalanceAttempts) <= 1
        /\ BalanceAttempts # <<>> <=> UsageSucceeded

\* collect returned after the usage endpoint failed, with no balance request
C2_Witness ==
    /\ ReturnedWithKey
    /\ UsageAttempts # <<>>
    /\ ~UsageSucceeded
    /\ BalanceAttempts = <<>>
    /\ result # <<>>

----------------------------------------------------------------------------
(* C3 *)

\* C3: with a credential, when every usage endpoint failed (in any mix of
\* error, timeout, status other than 200, undecodable body) collect returns
\* primary "Offline", secondary "Offline" and metadata status=offline; and
\* "Offline" is shown only when no usage endpoint succeeded.
C3_OfflineIffUsageFailed ==
    ReturnedWithKey =>
        /\ ~UsageSucceeded =>
              /\ result # <<>>
              /\ result[1].primary = "Offline"
              /\ result[1].secondary = "Offline"
              /\ "status" \in DOMAIN result[1].metadata
              /\ result[1].metadata["status"] = "offline"
        /\ (/\ result # <<>>
            /\ \/ result[1].primary = "Offline"
               \/ result[1].secondary = "Offline"
               \/ /\ "status" \in DOMAIN result[1].metadata
                  /\ result[1].metadata["status"] = "offline")
              => ~UsageSucceeded

\* three endpoints failed in three different ways and the result is Offline
C3_Witness ==
    /\ ReturnedWithKey
    /\ Len(UsageAttempts) = 3
    /\ UsageAttempts[1].raw.res = "Err"
    /\ UsageAttempts[2].raw.res = "Ok" /\ UsageAttempts[2].raw.status # 200
    /\ UsageAttempts[3].raw.res = "Ok" /\ UsageAttempts[3].raw.status = 200
    /\ UsageAttempts[3].raw.body = <<>>
    /\ result # <<>>
    /\ result[1].primary = "Offline"

----------------------------------------------------------------------------
(* C4 *)

\* C4: collect returns nothing exactly when the resolver yields nothing, and
\* then no request was issued; in every other case it returns a SegmentData
\* with non-empty primary and secondary, and collect is never stuck before
\* it returns.
C4_NothingIffNoCredential ==
    /\ Returned =>
          /\ result = <<>> <=> api_key = <<>>
          /\ api_key = <<>> => attempts = <<>>
          /\ result # <<>> => result[1].primary # "" /\ result[1].secondary # ""
    /\ ~Returned => ENABLED Next

\* no source gives a credential and collect returned nothing, without request
C4_Witness ==
    /\ Returned
    /\ NoEnv
    /\ ~KeyFilePresent
    /\ api_key = <<>>
    /\ result = <<>>
    /\ attempts = <<>>

----------------------------------------------------------------------------
(* C5 *)

\* C5: a returned credential is never the empty string, and no request is
\* made with an empty key.
C5_CredentialNeverEmpty ==
    /\ pc # "start" /\ api_key # <<>> => api_key[1] # <<>>
    /\ \A i \in DOMAIN attempts : attempts[i].key # <<>>

----------------------------------------------------------------------------
(* C6 *)

\* C6: every SegmentData collect returns carries exactly one outcome class
\* in its metadata: status=offline, status=no_data_today, or raw_spent with
\* endpoint_used; never empty, never both; offline iff usage failed,
\* no_data_today iff usage succeeded with an empty list, the success fields
\* iff usage succeeded with at least one record.
C6_OneOutcomeClass ==
    Returned /\ result # <<>> =>
        LET md == result[1].metadata
            isStatus(v) == DOMAIN md = {"status"} /\ md["status"] = v
            isSuccess == DOMAIN md = {"raw_spent", "endpoint_used"}
        IN  /\ isStatus("offline") \/ isStatus("no_data_today") \/ isSuccess
            /\ isStatus("offline") <=> ~UsageSucceeded
            /\ isStatus("no_data_today") <=> UsageSucceeded /\ UsageRecords = <<>>
            /\ isSuccess <=> UsageSucceeded /\ UsageRecords # <<>>

\* the success class: usage answered with a record
C6_Witness ==
    /\ Returned
    /\ result # <<>>
    /\ UsageSucceeded
    /\ Len(UsageRecords) = 2
    /\ result[1].metadata = ("raw_spent" :> "1.5" @@ "endpoint_used" :> UsageUrl)

----------------------------------------------------------------------------
(* C7 *)

\* C7: the detector queries the usage endpoints in their configured order,
\* one per step; every endpoint queried before the last one failed; it stops
\* at the first success and returns that endpoint's url and response; it
\* returns nothing only after every endpoint of the list failed.
C7_FirstSuccessInOrder ==
    LET U == UsageAttempts IN
    /\ Len(U) <= Len(endpoints)
    /\ \A i \in DOMAIN U : U[i].url = endpoints[i].url
    /\ \A i \in DOMAIN U : i < Len(U) => Failed(U[i].raw)
    /\ pc = "detect" => Len(U) = idx - 1 /\ ~UsageSucceeded
    /\ pc \in {"balance", "done"} /\ api_key # <<>> =>
          /\ U # <<>>
          /\ IF Failed(U[Len(U)].raw)
             THEN detected = <<>> /\ Len(U) = Len(endpoints)
             ELSE detected = <<[url |-> endpoints[Len(U)].url,
                                response |-> U[Len(U)].raw.body[1]]>>

\* of three endpoints the first failed, the second answered, the third was
\* never queried
C7_Witness ==
    /\ Returned
    /\ Len(endpoints) = 3
    /\ Len(UsageAttempts) = 2
    /\ detected # <<>>
    /\ detected[1].url = endpoints[2].url

----------------------------------------------------------------------------
(* C8 *)

\* C8: when a usage endpoint answers with an empty daily_usage list, collect
\* returns primary "Used:$0.00" and metadata status=no_data_today, and the
\* balance endpoint is still queried: secondary is "Left:$" with
\* total_balance to two decimals when that request succeeds, and
\* "Balance Unknown" when it fails.
C8_NoDataToday ==
    Returned /\ UsageSucceeded /\ UsageRecords = <<>> =>
        /\ result # <<>>
        /\ result[1].primary = "Used:$0.00"
        /\ result[1].metadata = ("status" :> "no_data_today")
        /\ Len(BalanceAttempts) = 1
        /\ IsBalanceAttempt(attempts[Len(attempts)])
        /\ LET raw == BalanceAttempts[1].raw IN
           result[1].secondary =
              IF Failed(raw) THEN "Balance Unknown"
              ELSE "Left:$" \o TwoDecimals(raw.body[1].total_balance)

\* empty usage list, balance of 10.0
C8_Witness ==
    /\ Returned
    /\ UsageSucceeded
    /\ UsageRecords = <<>>
    /\ result # <<>>
    /\ result[1].primary = "Used:$0.00"
    /\ result[1].secondary = "Left:$10.00"

----------------------------------------------------------------------------
(* C9 *)

\* C9: when usage answers with at least one record and the balance request
\* fails, primary is "Used:$" with the first record's cost to two decimals,
\* secondary is "Balance Unknown", and the metadata holds raw_spent and
\* endpoint_used; the result is neither "Offline" nor nothing.
C9_BalanceUnknown ==
    (/\ Returned /\ UsageSucceeded /\ UsageRecords # <<>>
     /\ BalanceAttempts # <<>> /\ Failed(BalanceAttempts[1].raw)) =>
        /\ result # <<>>
        /\ result[1].primary = "Used:$" \o TwoDecimals(UsageRecords[1].total_cost)
        /\ result[1].secondary = "Balance Unknown"
        /\ result[1].metadata =
              ("raw_spent" :> Shortest(UsageRecords[1].total_cost) @@
               "endpoint_used" :> UsageAnswer.url)

\* a cost of 1.5 first in the list, then the balance request timed out
C9_Witness ==
    /\ Returned
    /\ UsageSucceeded
    /\ Len(UsageRecords) = 2
    /\ UsageRecords[1].total_cost = 12
    /\ UsageRecords[2].total_cost = 3
    /\ BalanceAttempts # <<>>
    /\ BalanceAttempts[1].raw.err = "timeout"
    /\ result # <<>>
    /\ result[1].primary = "Used:$1.50"
    /\ result[1].secondary = "Balance Unknown"

----------------------------------------------------------------------------
(* C10 *)

\* the settings file gives no value for one of the reasons C10 lists
SettingsUnusable ==
    \/ settingsFile = <<>>
    \/ ~settingsFile[1].valid
    \/ settingsFile[1].root.t # "obj"
    \/ "env" \notin DOMAIN settingsFile[1].root.o
    \/ settingsFile[1].root.o["env"].t # "obj"
    \/ \A name \in {"ANTHROPIC_AUTH_TOKEN", "ANTHROPIC_API_KEY"} :
          \/ name \notin DOMAIN settingsFile[1].root.o["env"].o
          \/ settingsFile[1].root.o["env"].o[name].t # "str"

\* C10: with the three environment variables absent, a settings file that
\* is missing, unreadable, not JSON, without an env object, or whose env
\* fields are absent or not strings lets the resolution fall through: the
\* credential is what the key file alone gives.
C10_SettingsFallThrough ==
    pc # "start" /\ NoEnv /\ SettingsUnusable => api_key = KeyFileAlone

\* a settings file that is not JSON, and the key file's trimmed contents
C10_Witness ==
    /\ pc # "start"
    /\ NoEnv
    /\ home
    /\ settingsFile # <<>>
    /\ ~settingsFile[1].valid
    /\ keyFile = << <<" ", "f", "\n">> >>
    /\ api_key = << <<"f">> >>

====
